---- MODULE Spec2Model ----
(***************************************************************************)
(* dom-serializer: render(node | nodes, options) -> string.                *)
(*                                                                         *)
(* Strings are sequences of tokens.  A token is one character ("<", "&",   *)
(* the double quote, ...), one entity produced by an encoder ("&quot;"),   *)
(* or one name (an element or attribute name such as "svg").  The         *)
(* concatenation of the tokens of a sequence is the JavaScript string.     *)
(*                                                                         *)
(* Option values are the strings "undef", "false", "true", "foreign" and   *)
(* "utf8": JavaScript compares values of different types, TLC does not.    *)
(***************************************************************************)
EXTENDS Integers, Sequences, FiniteSets, TLC

(***************************************************************************)
(* Bounds of the model.                                                    *)
(***************************************************************************)
\* longest generated attribute value / text datum, in characters
MaxLen == 2

\* most calls of render the caller makes in a row with one argument
MaxCalls == 2

(***************************************************************************)
(* JavaScript values of the options.                                       *)
(***************************************************************************)
\* JavaScript truthiness of an option value
Truthy(v) == v \in {"true", "foreign", "utf8"}

\* a ?? b
Coalesce(a, b) == IF a # "undef" THEN a ELSE b

(***************************************************************************)
(* Characters of the generated strings.  QUOT is the double quote, EACUTE  *)
(* stands for a non-ASCII character (U+00E9).                              *)
(***************************************************************************)
QUOT == "\""
EACUTE == "U+00E9"
Chars == {"a", QUOT, "&", "<", EACUTE}

RECURSIVE StringsUpTo(_)
StringsUpTo(n) ==
  IF n = 0 THEN {<<>>}
  ELSE LET shorter == StringsUpTo(n - 1)
       IN  shorter \cup {Append(s, c) : s \in shorter, c \in Chars}

Strings == StringsUpTo(MaxLen)

\* s with f applied to every token
MapSeq(f(_), s) == [i \in 1..Len(s) |-> f(s[i])]

(***************************************************************************)
(* The entity-encoding service (the "entities" package).                   *)
(***************************************************************************)
EncodeXMLChar(c) ==
  CASE c = QUOT   -> "&quot;"
    [] c = "&"    -> "&amp;"
    [] c = "'"    -> "&apos;"
    [] c = "<"    -> "&lt;"
    [] c = ">"    -> "&gt;"
    [] c = EACUTE -> "&#xe9;"
    [] OTHER      -> c

EscapeAttributeChar(c) ==
  CASE c = QUOT -> "&quot;"
    [] c = "&"  -> "&amp;"
    [] OTHER    -> c

EscapeTextChar(c) ==
  CASE c = "&" -> "&amp;"
    [] c = "<" -> "&lt;"
    [] c = ">" -> "&gt;"
    [] OTHER   -> c

encodeXML(value) == MapSeq(EncodeXMLChar, value)
escapeAttribute(value) == MapSeq(EscapeAttributeChar, value)
escapeText(value) == MapSeq(EscapeTextChar, value)

ReplaceQuotesChar(c) == IF c = QUOT THEN "&quot;" ELSE c

\* replaceQuotes without the g flag: the first quote only
replaceQuotesFirst(value) ==
  [i \in 1..Len(value) |->
     IF value[i] = QUOT /\ \A j \in 1..(i - 1) : value[j] # QUOT
     THEN "&quot;" ELSE value[i]]

replaceQuotes(value) == MapSeq(ReplaceQuotesChar, value)

(***************************************************************************)
(* Fixed lookup tables.                                                    *)
(***************************************************************************)
unencodedElements ==
  {"style", "script", "xmp", "iframe", "noembed", "noframes", "plaintext",
   "noscript"}

singleTag ==
  {"area", "base", "basefont", "br", "col", "command", "embed", "frame",
   "hr", "img", "input", "isindex", "keygen", "link", "meta", "param",
   "source", "track", "wbr"}

foreignModeIntegrationPoints ==
  {"mi", "mo", "mn", "ms", "mtext", "annotation-xml", "foreignObject",
   "desc", "title"}

foreignElements == {"svg", "math"}

\* elementNames.get(name) ?? name
ElementName(name) ==
  CASE name = "foreignobject"  -> "foreignObject"
    [] name = "radialgradient" -> "radialGradient"
    [] name = "clippath"       -> "clipPath"
    [] OTHER                   -> name

\* attributeNames.get(key) ?? key
AttributeName(key) ==
  CASE key = "viewbox"          -> "viewBox"
    [] key = "requiredfeatures" -> "requiredFeatures"
    [] OTHER                    -> key

(***************************************************************************)
(* The tree.  A tree is a sequence of nodes; a node is named by its index. *)
(* parent = 0: no parent.  An attribute is [key, absent, value]; absent    *)
(* is the null / undefined value of a boolean-style attribute.             *)
(***************************************************************************)
Node(type, name, attribs, children, parent, data) ==
  [type |-> type, name |-> name, attribs |-> attribs, children |-> children,
   parent |-> parent, data |-> data]

Attr(key, value) == [key |-> key, absent |-> FALSE, value |-> value]
BoolAttr(key) == [key |-> key, absent |-> TRUE, value |-> <<>>]

(***************************************************************************)
(* The options the two renderers share.                                    *)
(***************************************************************************)
\* (options.encodeEntities || options.decodeEntities) === false
EncodingDisabledOr(options) ==
  (IF Truthy(options.encodeEntities) THEN options.encodeEntities
   ELSE options.decodeEntities) = "false"

\* (options.encodeEntities ?? options.decodeEntities) === false
EncodingDisabled(options) ==
  Coalesce(options.encodeEntities, options.decodeEntities) = "false"

\* !!options.xmlMode || options.encodeEntities !== "utf8"
UseEncodeXML(options) ==
  Truthy(options.xmlMode) \/ options.encodeEntities # "utf8"

(***************************************************************************)
(* formatAttributes                                                        *)
(***************************************************************************)
\* the encoder, were utf8 honoured whatever the mode
AttrEncoderAnyMode(options) ==
  IF EncodingDisabled(options) THEN "replaceQuotes"
  ELSE IF options.encodeEntities # "utf8" THEN "encodeXML"
  ELSE "escapeAttribute"

\* the encoder chosen once per call: the name of one of the three functions
AttrEncoder(options) ==
  IF EncodingDisabled(options) THEN "replaceQuotes"
  ELSE IF UseEncodeXML(options) THEN "encodeXML"
  ELSE "escapeAttribute"

ApplyEncoder(encode, value) ==
  CASE encode = "replaceQuotes"   -> replaceQuotes(value)
    [] encode = "encodeXML"       -> encodeXML(value)
    [] encode = "escapeAttribute" -> escapeAttribute(value)
    [] encode = "escapeText"      -> escapeText(value)

\* the callback, were the bare key chosen whatever the mode
FormatAttributeAnyMode(attr, options) ==
  LET value == IF attr.absent THEN <<>> ELSE attr.value
      key   == IF options.xmlMode = "foreign" THEN AttributeName(attr.key)
               ELSE attr.key
  IN  IF ~Truthy(options.emptyAttrs) /\ value = <<>>
      THEN <<key>>
      ELSE <<key, "=", QUOT>> \o ApplyEncoder(AttrEncoder(options), value)
             \o <<QUOT>>

\* the callback, were the key fixed up in XML mode as well
FormatAttributeAnyXmlMode(attr, options) ==
  LET value == IF attr.absent THEN <<>> ELSE attr.value
      key   == IF Truthy(options.xmlMode) THEN AttributeName(attr.key)
               ELSE attr.key
  IN  IF ~Truthy(options.emptyAttrs) /\ ~Truthy(options.xmlMode) /\ value = <<>>
      THEN <<key>>
      ELSE <<key, "=", QUOT>> \o ApplyEncoder(AttrEncoder(options), value)
             \o <<QUOT>>

\* the callback of .map(): one attribute to its text
FormatAttribute(attr, options) ==
  LET value == IF attr.absent THEN <<>> ELSE attr.value
      key   == IF options.xmlMode = "foreign" THEN AttributeName(attr.key)
               ELSE attr.key
  IN  IF ~Truthy(options.emptyAttrs) /\ ~Truthy(options.xmlMode) /\ value = <<>>
      THEN <<key>>
      ELSE <<key, "=", QUOT>> \o ApplyEncoder(AttrEncoder(options), value)
             \o <<QUOT>>

RECURSIVE JoinFrom(_, _, _)
\* parts[i..] joined by the separator
JoinFrom(parts, i, sep) ==
  IF i > Len(parts) THEN <<>>
  ELSE IF i = Len(parts) THEN parts[i]
  ELSE parts[i] \o <<sep>> \o JoinFrom(parts, i + 1, sep)

\* An element always carries an attribute mapping; were it missing, the
\* code returns undefined and the tag gets no attribute text, as it does
\* for an empty mapping.
formatAttributes(attributes, options) ==
  JoinFrom([i \in 1..Len(attributes) |-> FormatAttribute(attributes[i], options)],
           1, " ")

(***************************************************************************)
(* renderTag, in its parts                                                 *)
(***************************************************************************)
\* the name, were it fixed up in XML mode as well
TagNameAnyXmlMode(element, options) ==
  IF Truthy(options.xmlMode) THEN ElementName(element.name)
  ELSE element.name

\* the name of the element once renderTag has fixed it up
TagName(element, options) ==
  IF options.xmlMode = "foreign" THEN ElementName(element.name)
  ELSE element.name

\* the options, were foreign mode not left at integration points
TagOptionsNoExit(tree, id, options) ==
  IF ~Truthy(options.xmlMode) /\ tree[id].name \in foreignElements
  THEN [options EXCEPT !.xmlMode = "foreign"]
  ELSE options

\* the options, were svg and math looked for only when the inherited mode
\* is not foreign (the second test the else branch of the first)
TagOptionsElse(tree, id, options) ==
  LET element == tree[id]
  IN  IF options.xmlMode = "foreign"
      THEN IF /\ element.parent # 0
              /\ tree[element.parent].name \in foreignModeIntegrationPoints
           THEN [options EXCEPT !.xmlMode = "false"]
           ELSE options
      ELSE IF ~Truthy(options.xmlMode) /\ element.name \in foreignElements
           THEN [options EXCEPT !.xmlMode = "foreign"]
           ELSE options

\* the options renderTag goes on with; tree is the tree after the fix-up
\* TagOptions, were the svg/math test made before the integration-point test
TagOptionsExitLast(tree, id, options) ==
  LET element == tree[id]
      entered == IF ~Truthy(options.xmlMode) /\ element.name \in foreignElements
                 THEN [options EXCEPT !.xmlMode = "foreign"]
                 ELSE options
  IN  IF /\ entered.xmlMode = "foreign"
         /\ element.parent # 0
         /\ tree[element.parent].name \in foreignModeIntegrationPoints
      THEN [entered EXCEPT !.xmlMode = "false"]
      ELSE entered

\* TagOptions, were svg and math to enter foreign mode under xmlMode true too
TagOptionsForeignInXml(tree, id, options) ==
  LET element == tree[id]
      exited  == IF /\ options.xmlMode = "foreign"
                    /\ element.parent # 0
                    /\ tree[element.parent].name \in foreignModeIntegrationPoints
                 THEN [options EXCEPT !.xmlMode = "false"]
                 ELSE options
  IN  IF exited.xmlMode # "foreign" /\ element.name \in foreignElements
      THEN [exited EXCEPT !.xmlMode = "foreign"]
      ELSE exited

TagOptions(tree, id, options) ==
  LET element == tree[id]
      exited  == IF /\ options.xmlMode = "foreign"
                    /\ element.parent # 0
                    /\ tree[element.parent].name \in foreignModeIntegrationPoints
                 THEN [options EXCEPT !.xmlMode = "false"]
                 ELSE options
  IN  IF ~Truthy(exited.xmlMode) /\ element.name \in foreignElements
      THEN [exited EXCEPT !.xmlMode = "foreign"]
      ELSE exited

\* the condition, were the void-element set not consulted
SelfClosesAnyName(element, options) ==
  /\ Len(element.children) = 0
  /\ IF Truthy(options.xmlMode)
     THEN options.selfClosingTags # "false"
     ELSE Truthy(options.selfClosingTags)

\* the condition of the self-closing branch
SelfCloses(element, options) ==
  /\ Len(element.children) = 0
  /\ IF Truthy(options.xmlMode)
     THEN options.selfClosingTags # "false"
     ELSE Truthy(options.selfClosingTags) /\ element.name \in singleTag

\* the text of the self-closing end of the opening tag
SelfClosingEnd(options) ==
  (IF ~Truthy(options.xmlMode) THEN <<" ">> ELSE <<>>) \o <<"/>">>

\* the condition, were the closing tag written for every name
HasClosingTagAlways(element, options) ==
  TRUE

\* the condition, were the closing tag written in XML and foreign mode only
HasClosingTagInXml(element, options) ==
  Truthy(options.xmlMode)

\* whether the closing tag is written
HasClosingTag(element, options) ==
  Truthy(options.xmlMode) \/ element.name \notin singleTag

(***************************************************************************)
(* renderText, in its parts                                                *)
(***************************************************************************)
\* the condition, were the content of raw-text elements raw in every mode
TextIsEncodedAnyMode(tree, element, options) ==
  /\ ~EncodingDisabled(options)
  /\ ~(/\ element.parent # 0
       /\ tree[element.parent].name \in unencodedElements)

\* the condition, were the parent's name not looked at
TextIsEncodedAnyParent(tree, element, options) ==
  ~EncodingDisabled(options)

\* the condition under which data is encoded
TextIsEncoded(tree, element, options) ==
  /\ ~EncodingDisabled(options)
  /\ ~(/\ ~Truthy(options.xmlMode)
       /\ element.parent # 0
       /\ tree[element.parent].name \in unencodedElements)

\* the encoder, were utf8 honoured whatever the mode
TextEncoderAnyMode(options) ==
  IF options.encodeEntities # "utf8" THEN "encodeXML" ELSE "escapeText"

TextEncoder(options) ==
  IF UseEncodeXML(options) THEN "encodeXML" ELSE "escapeText"

(***************************************************************************)
(* The renderers.  Each returns what the call leaves behind: the tree      *)
(* (renderTag rewrites element names), the log of the nodes visited,       *)
(* whether the call threw, and the string it returned.                     *)
(*                                                                         *)
(* A log entry names the node, the options the renderer was called with    *)
(* (options), the options it went on with (effective) and the number of    *)
(* render calls it is nested in (depth).                                   *)
(***************************************************************************)
Outcome(tree, log, threw, out) ==
  [tree |-> tree, log |-> log, threw |-> threw, out |-> out]

Visit(id, options, effective, depth) ==
  [node |-> id, options |-> options, effective |-> effective, depth |-> depth]

\* `${element.data}`: the data of a node that has some, "undefined" otherwise
DataOf(element) ==
  IF element.type \in {"text", "comment", "directive", "doctype"}
  THEN element.data
  ELSE <<"undefined">>

renderDirective(tree, log, id, options, depth) ==
  Outcome(tree, Append(log, Visit(id, options, options, depth)), FALSE,
          <<"<">> \o DataOf(tree[id]) \o <<">">>)

\* renderComment, were the data encoded as the data of a text is
renderCommentEncoded(tree, log, id, options, depth) ==
  Outcome(tree, Append(log, Visit(id, options, options, depth)), FALSE,
          <<"<!--">>
            \o (IF EncodingDisabled(options) THEN DataOf(tree[id])
                ELSE encodeXML(DataOf(tree[id])))
            \o <<"-->">>)

renderComment(tree, log, id, options, depth) ==
  Outcome(tree, Append(log, Visit(id, options, options, depth)), FALSE,
          <<"<!--">> \o DataOf(tree[id]) \o <<"-->">>)

\* renderCdata, were the data encoded as the data of a text is
renderCdataEncoded(tree, log, id, options, depth) ==
  LET element == tree[id]
      visited == Append(log, Visit(id, options, options, depth))
  IN  IF Len(element.children) = 0
      THEN Outcome(tree, visited, TRUE, <<>>)
      ELSE Outcome(tree, visited, FALSE,
                   <<"<![CDATA[">>
                     \o (IF EncodingDisabled(options)
                         THEN DataOf(tree[element.children[1]])
                         ELSE encodeXML(DataOf(tree[element.children[1]])))
                     \o <<"]]>">>)

\* element.children[0] of a CDATA node without children is undefined, and
\* reading its data throws a TypeError
renderCdata(tree, log, id, options, depth) ==
  LET element == tree[id]
      visited == Append(log, Visit(id, options, options, depth))
  IN  IF Len(element.children) = 0
      THEN Outcome(tree, visited, TRUE, <<>>)
      ELSE Outcome(tree, visited, FALSE,
                   <<"<![CDATA[">> \o DataOf(tree[element.children[1]])
                     \o <<"]]>">>)

renderText(tree, log, id, options, depth) ==
  LET element == tree[id]
      data    == IF element.type = "text" THEN element.data ELSE <<>>
  IN  Outcome(tree, Append(log, Visit(id, options, options, depth)), FALSE,
              IF TextIsEncoded(tree, element, options)
              THEN ApplyEncoder(TextEncoder(options), data)
              ELSE data)

RECURSIVE renderLoop(_, _, _, _, _, _, _)
RECURSIVE renderNode(_, _, _, _, _)
RECURSIVE renderTag(_, _, _, _, _)

\* render(nodes, options), nodes an array
render(tree, log, nodes, options, depth) ==
  renderLoop(tree, log, nodes, 1, options, depth + 1, <<>>)

\* the loop of render, were it to join the renders with a space
renderLoopJoined(tree, log, nodes, index, options, depth, output) ==
  IF index > Len(nodes) THEN Outcome(tree, log, FALSE, output)
  ELSE LET r == renderNode(tree, log, nodes[index], options, depth)
       IN  IF r.threw THEN r
           ELSE renderLoop(r.tree, r.log, nodes, index + 1, options, depth,
                           output \o r.out
                             \o (IF index < Len(nodes) THEN <<" ">> ELSE <<>>))

\* the loop of render, were the options one node went on with handed to
\* the next node
renderLoopLeaking(tree, log, nodes, index, options, depth, output) ==
  IF index > Len(nodes) THEN Outcome(tree, log, FALSE, output)
  ELSE LET r == renderNode(tree, log, nodes[index], options, depth)
       IN  IF r.threw THEN r
           ELSE renderLoop(r.tree, r.log, nodes, index + 1,
                           r.log[Len(log) + 1].effective, depth,
                           output \o r.out)

\* the while loop of render, at index (counted from 1) with output so far
renderLoop(tree, log, nodes, index, options, depth, output) ==
  IF index > Len(nodes) THEN Outcome(tree, log, FALSE, output)
  ELSE LET r == renderNode(tree, log, nodes[index], options, depth)
       IN  IF r.threw THEN r
           ELSE renderLoop(r.tree, r.log, nodes, index + 1, options, depth,
                           output \o r.out)

\* a kind outside the switch: renderNode returns undefined, and
\* output += undefined appends the text "undefined"
renderNode(tree, log, id, options, depth) ==
  LET type == tree[id].type
  IN  CASE type = "root" ->
             render(tree, Append(log, Visit(id, options, options, depth)),
                    tree[id].children, options, depth)
        [] type \in {"doctype", "directive"} ->
             renderDirective(tree, log, id, options, depth)
        [] type = "comment" -> renderComment(tree, log, id, options, depth)
        [] type = "cdata" -> renderCdata(tree, log, id, options, depth)
        [] type \in {"script", "style", "tag"} ->
             renderTag(tree, log, id, options, depth)
        [] type = "text" -> renderText(tree, log, id, options, depth)
        [] OTHER ->
             Outcome(tree, Append(log, Visit(id, options, options, depth)),
                     FALSE, <<"undefined">>)

\* renderTag, were the fixed-up attribute keys stored in the element as the
\* fixed-up name is
renderTagStoringKeys(tree, log, id, options, depth) ==
  LET named    == [tree EXCEPT ![id].name = TagName(tree[id], options)]
      opts     == TagOptions(named, id, options)
      fixed    == [named EXCEPT ![id].attribs =
                     [i \in 1..Len(@) |->
                        [@[i] EXCEPT !.key =
                           IF opts.xmlMode = "foreign" THEN AttributeName(@)
                           ELSE @]]]
      element  == fixed[id]
      visited  == Append(log, Visit(id, options, opts, depth))
      attribs  == formatAttributes(element.attribs, opts)
      tag      == <<"<", element.name>>
                    \o (IF attribs # <<>> THEN <<" ">> \o attribs ELSE <<>>)
  IN  IF SelfCloses(element, opts)
      THEN Outcome(fixed, visited, FALSE, tag \o SelfClosingEnd(opts))
      ELSE LET kids == IF Len(element.children) > 0
                       THEN render(fixed, visited, element.children, opts, depth)
                       ELSE Outcome(fixed, visited, FALSE, <<>>)
               close == IF HasClosingTag(kids.tree[id], opts)
                        THEN <<"</", kids.tree[id].name, ">">>
                        ELSE <<>>
           IN  IF kids.threw THEN kids
               ELSE Outcome(kids.tree, kids.log, FALSE,
                            tag \o <<">">> \o kids.out \o close)

\* renderTag, were the fixed-up name stored once the children are rendered
renderTagLateFixup(tree, log, id, options, depth) ==
  LET fixed    == [tree EXCEPT ![id].name = TagName(tree[id], options)]
      element  == fixed[id]
      opts     == TagOptions(fixed, id, options)
      visited  == Append(log, Visit(id, options, opts, depth))
      attribs  == formatAttributes(element.attribs, opts)
      tag      == <<"<", element.name>>
                    \o (IF attribs # <<>> THEN <<" ">> \o attribs ELSE <<>>)
  IN  IF SelfCloses(element, opts)
      THEN Outcome(fixed, visited, FALSE, tag \o SelfClosingEnd(opts))
      ELSE LET kids == IF Len(element.children) > 0
                       THEN render(tree, visited, element.children, opts, depth)
                       ELSE Outcome(tree, visited, FALSE, <<>>)
               close == IF HasClosingTag(element, opts)
                        THEN <<"</", element.name, ">">>
                        ELSE <<>>
           IN  IF kids.threw THEN kids
               ELSE Outcome([kids.tree EXCEPT ![id].name = element.name],
                            kids.log, FALSE,
                            tag \o <<">">> \o kids.out \o close)

renderTag(tree, log, id, options, depth) ==
  LET fixed    == [tree EXCEPT ![id].name = TagName(tree[id], options)]
      element  == fixed[id]
      opts     == TagOptions(fixed, id, options)
      visited  == Append(log, Visit(id, options, opts, depth))
      attribs  == formatAttributes(element.attribs, opts)
      tag      == <<"<", element.name>>
                    \o (IF attribs # <<>> THEN <<" ">> \o attribs ELSE <<>>)
  IN  IF SelfCloses(element, opts)
      THEN Outcome(fixed, visited, FALSE, tag \o SelfClosingEnd(opts))
      ELSE LET kids == IF Len(element.children) > 0
                       THEN render(fixed, visited, element.children, opts, depth)
                       ELSE Outcome(fixed, visited, FALSE, <<>>)
               close == IF HasClosingTag(kids.tree[id], opts)
                        THEN <<"</", kids.tree[id].name, ">">>
                        ELSE <<>>
           IN  IF kids.threw THEN kids
               ELSE Outcome(kids.tree, kids.log, FALSE,
                            tag \o <<">">> \o kids.out \o close)

(***************************************************************************)
(* The class-based serializer, DomSerializer: the configuration is the     *)
(* field this.options, shared by all the calls of one traversal, and the   *)
(* text is appended to the field this.output.  A method takes the state    *)
(* of the serializer and of the tree and returns it as the method leaves   *)
(* it: [tree, log, threw, out (this.output), options (this.options)].      *)
(* Its conditions are the conditions of the function-based serializer,     *)
(* read on this.options.                                                   *)
(***************************************************************************)
Serializer(tree, log, threw, out, options) ==
  [tree |-> tree, log |-> log, threw |-> threw, out |-> out,
   options |-> options]

DomSerializer_renderDirective(st, id, depth) ==
  [st EXCEPT !.log = Append(@, Visit(id, st.options, st.options, depth)),
             !.out = @ \o <<"<">> \o DataOf(st.tree[id]) \o <<">">>]

DomSerializer_renderComment(st, id, depth) ==
  [st EXCEPT !.log = Append(@, Visit(id, st.options, st.options, depth)),
             !.out = @ \o <<"<!--">> \o DataOf(st.tree[id]) \o <<"-->">>]

DomSerializer_renderCdata(st, id, depth) ==
  LET element == st.tree[id]
      visited == Append(st.log, Visit(id, st.options, st.options, depth))
  IN  IF Len(element.children) = 0
      THEN [st EXCEPT !.log = visited, !.threw = TRUE]
      ELSE [st EXCEPT !.log = visited,
                      !.out = @ \o <<"<![CDATA[">>
                                \o DataOf(st.tree[element.children[1]])
                                \o <<"]]>">>]

DomSerializer_renderText(st, id, depth) ==
  LET element == st.tree[id]
      data    == IF element.type = "text" THEN element.data ELSE <<>>
  IN  [st EXCEPT !.log = Append(@, Visit(id, st.options, st.options, depth)),
                 !.out = @ \o (IF TextIsEncoded(st.tree, element, st.options)
                               THEN ApplyEncoder(TextEncoder(st.options), data)
                               ELSE data)]

RECURSIVE DomSerializer_renderNodes(_, _, _, _)
RECURSIVE DomSerializer_renderNode(_, _, _)
RECURSIVE DomSerializer_renderTag(_, _, _)

\* render(nodes): this.output is emptied, then the nodes are rendered
DomSerializer_render(st, nodes, depth) ==
  DomSerializer_renderNodes([st EXCEPT !.out = <<>>], nodes, 1, depth)

\* the loop of render and the forEach of renderTag, at index (from 1): r is
\* the serializer as the node at index leaves it, the one state the rest of
\* the loop goes on from
DomSerializer_renderNodes(st, nodes, index, depth) ==
  IF index > Len(nodes) THEN st
  ELSE CHOOSE end \in
         {IF r.threw THEN r
          ELSE DomSerializer_renderNodes(r, nodes, index + 1, depth) :
            r \in {DomSerializer_renderNode(st, nodes[index], depth)}} : TRUE

\* a kind outside the switch: nothing is appended
DomSerializer_renderNode(st, id, depth) ==
  LET type == st.tree[id].type
  IN  CASE type = "root" ->
             DomSerializer_render(
               [st EXCEPT !.log = Append(@, Visit(id, st.options, st.options,
                                                  depth))],
               st.tree[id].children, depth + 1)
        [] type \in {"doctype", "directive"} ->
             DomSerializer_renderDirective(st, id, depth)
        [] type = "comment" -> DomSerializer_renderComment(st, id, depth)
        [] type = "cdata" -> DomSerializer_renderCdata(st, id, depth)
        [] type \in {"script", "style", "tag"} ->
             DomSerializer_renderTag(st, id, depth)
        [] type = "text" -> DomSerializer_renderText(st, id, depth)
        [] OTHER ->
             [st EXCEPT !.log = Append(@, Visit(id, st.options, st.options,
                                                depth))]

\* this.options is reassigned at an integration point and at svg and math;
\* it is assigned once more, to xmlMode false, at the end of an element
\* that switched to foreign mode, and at the end of no other element
DomSerializer_renderTag(st, id, depth) ==
  LET fixed    == [st.tree EXCEPT ![id].name = TagName(st.tree[id], st.options)]
      element  == fixed[id]
      exited   == IF /\ st.options.xmlMode = "foreign"
                     /\ element.parent # 0
                     /\ fixed[element.parent].name
                          \in foreignModeIntegrationPoints
                  THEN [st.options EXCEPT !.xmlMode = "false"]
                  ELSE st.options
      xmlModeSwitchedToForeign ==
                  ~Truthy(exited.xmlMode) /\ element.name \in foreignElements
      opts     == IF xmlModeSwitchedToForeign
                  THEN [exited EXCEPT !.xmlMode = "foreign"]
                  ELSE exited
      attribs  == formatAttributes(element.attribs, opts)
      tag      == <<"<", element.name>>
                    \o (IF attribs # <<>> THEN <<" ">> \o attribs ELSE <<>>)
      opened   == [st EXCEPT !.tree = fixed,
                             !.log = Append(@, Visit(id, st.options, opts,
                                                     depth)),
                             !.options = opts]
      body     == IF SelfCloses(element, opts)
                  THEN [opened EXCEPT !.out = @ \o tag \o SelfClosingEnd(opts)]
                  ELSE LET kids ==
                             DomSerializer_renderNodes(
                               [opened EXCEPT !.out = @ \o tag \o <<">">>],
                               element.children, 1, depth + 1)
                       IN  IF kids.threw THEN kids
                           ELSE IF HasClosingTag(kids.tree[id], kids.options)
                           THEN [kids EXCEPT !.out =
                                   @ \o <<"</", kids.tree[id].name, ">">>]
                           ELSE kids
  IN  IF body.threw \/ ~xmlModeSwitchedToForeign THEN body
      ELSE [body EXCEPT !.options.xmlMode = "false"]

(***************************************************************************)
(* The inputs: the documents a parser hands over, and the options.         *)
(***************************************************************************)
SvgDocument ==
  << Node("root", "", <<>>, <<2, 11, 12>>, 0, <<>>),
     Node("tag", "svg", <<>>, <<3, 8, 9>>, 1, <<>>),
     Node("tag", "foreignobject", <<Attr("requiredfeatures", <<>>)>>, <<4, 5, 6>>, 2, <<>>),
     Node("tag", "img", <<Attr("src", <<"test.png">>), BoolAttr("viewbox")>>, <<>>, 3, <<>>),
     Node("text", "", <<>>, <<>>, 3, <<"text">>),
     Node("tag", "svg", <<Attr("viewbox", <<"0 0 8 8">>)>>, <<7>>, 3, <<>>),
     Node("tag", "circle", <<Attr("r", <<"3">>)>>, <<>>, 6, <<>>),
     Node("tag", "radialgradient", <<>>, <<>>, 2, <<>>),
     Node("tag", "title", <<>>, <<10>>, 2, <<>>),
     Node("text", "", <<>>, <<>>, 9, <<EACUTE, "&">>),
     Node("tag", "br", <<>>, <<>>, 1, <<>>),
     Node("tag", "p", <<>>, <<13>>, 1, <<>>),
     Node("text", "", <<>>, <<>>, 12, <<EACUTE>>) >>

HtmlDocument ==
  << Node("root", "", <<>>, <<15, 2, 3, 4, 6, 7, 8, 10, 12, 14, 13>>, 0, <<>>),
     Node("directive", "", <<>>, <<>>, 1, <<"?xml version=", QUOT, "1.0", QUOT, " a", "&", "<", "?">>),
     Node("comment", "", <<>>, <<>>, 1, <<" ", "-->", "&", "<", QUOT>>),
     Node("tag", "div", <<BoolAttr("dropdown-toggle"), Attr("class", <<"a", "&", EACUTE>>)>>, <<5>>, 1, <<>>),
     Node("text", "", <<>>, <<>>, 4, <<"a", "<", "&", QUOT, EACUTE>>),
     Node("tag", "input", <<Attr("checked", <<>>)>>, <<>>, 1, <<>>),
     Node("tag", "hr", <<Attr("class", <<"an ", QUOT, "edge", QUOT, " case">>)>>, <<>>, 1, <<>>),
     Node("script", "script", <<>>, <<9>>, 1, <<>>),
     Node("text", "", <<>>, <<>>, 8, <<QUOT, "<", "br", ">", QUOT>>),
     Node("tag", "br", <<>>, <<11>>, 1, <<>>),
     Node("text", "", <<>>, <<>>, 10, <<"x">>),
     Node("tag", "foo", <<>>, <<>>, 1, <<>>),
     Node("tag", "div", <<BoolAttr("dropdown-toggle")>>, <<>>, 1, <<>>),
     Node("tag", "br", <<>>, <<>>, 1, <<>>),
     Node("doctype", "", <<>>, <<>>, 1, <<"!DOCTYPE html">>) >>

XmlDocument ==
  << Node("root", "", <<>>, <<2, 11>>, 0, <<>>),
     Node("tag", "a", <<Attr("ex:ample", <<"attribute">>)>>, <<3, 5, 6, 9>>, 1, <<>>),
     Node("cdata", "", <<>>, <<4>>, 2, <<>>),
     Node("text", "", <<>>, <<>>, 3, <<" asdf", "&", "asdf ">>),
     Node("tag", "c", <<>>, <<>>, 2, <<>>),
     Node("cdata", "", <<>>, <<7, 8>>, 2, <<>>),
     Node("text", "", <<>>, <<>>, 6, <<"&">>),
     Node("text", "", <<>>, <<>>, 6, <<"dropped">>),
     Node("cdata", "", <<>>, <<10>>, 2, <<>>),
     Node("tag", "b", <<>>, <<>>, 9, <<>>),
     Node("style", "style", <<>>, <<12>>, 1, <<>>),
     Node("text", "", <<>>, <<>>, 11, <<"<">>) >>

MathDocument ==
  << Node("root", "", <<>>, <<2, 12, 15>>, 0, <<>>),
     Node("tag", "math", <<>>, <<3, 8, 11>>, 1, <<>>),
     Node("tag", "mi", <<>>, <<4, 5, 7>>, 2, <<>>),
     Node("text", "", <<>>, <<>>, 3, <<"&", EACUTE>>),
     Node("tag", "b", <<>>, <<6, 13>>, 3, <<>>),
     Node("text", "", <<>>, <<>>, 5, <<EACUTE, "<">>),
     Node("tag", "svg", <<>>, <<>>, 3, <<>>),
     Node("tag", "annotation-xml", <<>>, <<9>>, 2, <<>>),
     Node("tag", "svg", <<>>, <<10>>, 8, <<>>),
     Node("tag", "clippath", <<>>, <<>>, 9, <<>>),
     Node("tag", "mtext", <<>>, <<>>, 2, <<>>),
     Node("tag", "img", <<Attr("viewbox", <<"1">>)>>, <<>>, 1, <<>>),
     Node("tag", "svg", <<Attr("viewbox", <<"1">>)>>, <<14>>, 5, <<>>),
     Node("tag", "clippath", <<>>, <<>>, 13, <<>>),
     Node("tag", "svg", <<Attr("viewbox", <<>>)>>, <<>>, 1, <<>>) >>

EmptyCdataDocument ==
  << Node("root", "", <<>>, <<2, 4>>, 0, <<>>),
     Node("tag", "p", <<>>, <<3>>, 1, <<>>),
     Node("cdata", "", <<>>, <<>>, 2, <<>>),
     Node("tag", "br", <<>>, <<>>, 1, <<>>) >>

UnknownKindDocument ==
  << Node("root", "", <<>>, <<2, 4, 5>>, 0, <<>>),
     Node("tag", "p", <<>>, <<3>>, 1, <<>>),
     Node("unknown", "", <<>>, <<>>, 2, <<>>),
     Node("unknown", "", <<>>, <<>>, 1, <<>>),
     Node("text", "", <<>>, <<>>, 1, <<"a">>) >>

ValueProbe(value) ==
  << Node("root", "", <<>>, <<2, 4, 6, 8>>, 0, <<>>),
     Node("tag", "div", <<Attr("t", value)>>, <<3>>, 1, <<>>),
     Node("text", "", <<>>, <<>>, 2, value),
     Node("tag", "svg", <<Attr("t", value)>>, <<5>>, 1, <<>>),
     Node("text", "", <<>>, <<>>, 4, value),
     Node("script", "script", <<>>, <<7>>, 1, <<>>),
     Node("text", "", <<>>, <<>>, 6, value),
     Node("tag", "input", <<Attr("t", value)>>, <<>>, 1, <<>>) >>

Documents ==
  {SvgDocument, HtmlDocument, XmlDocument, MathDocument, EmptyCdataDocument,
   UnknownKindDocument}

ValueProbes == {ValueProbe(value) : value \in Strings}

\* xmlMode unset is xmlMode false (the default)
AllOptions ==
  [xmlMode : {"false", "true", "foreign"},
   selfClosingTags : {"undef", "false", "true"},
   emptyAttrs : {"undef", "false", "true"},
   encodeEntities : {"undef", "false", "true", "utf8"},
   decodeEntities : {"undef", "false", "true"}]

\* the options that choose an encoder, the others unset
EncodingOptions ==
  {o \in AllOptions : o.selfClosingTags = "undef" /\ o.emptyAttrs = "undef"}

(***************************************************************************)
(* The state: the caller's tree and options object, the tree as the parser *)
(* handed it over (doc), and the call of render the caller is looking at:  *)
(* its argument, the tree it started from (pre), and how it ended; calls   *)
(* is the number of calls made in a row with that argument.                *)
(***************************************************************************)
VARIABLES doc, tree, options, status, target, pre, output, log, calls

vars == <<doc, tree, options, status, target, pre, output, log, calls>>

\* the first argument of render: one node (node), or an array (nodes)
OneNode(id) == [single |-> TRUE, node |-> id, nodes |-> <<>>]
Array(nodes) == [single |-> FALSE, node |-> 0, nodes |-> nodes]

NoTarget == Array(<<>>)

\* const nodes = "length" in node ? node : [node]
ArgNodes(arg) == IF arg.single THEN <<arg.node>> ELSE arg.nodes

Init ==
  /\ \/ doc \in Documents /\ options \in AllOptions
     \/ doc \in ValueProbes /\ options \in EncodingOptions
  /\ tree = doc
  /\ status = "idle"
  /\ target = NoTarget
  /\ pre = doc
  /\ output = <<>>
  /\ log = <<>>
  /\ calls = 0

\* the overrides of a call: the log entries of the elements that went on
\* with another mode than the one they were reached with
Overrides(entries) ==
  {i \in 1..Len(entries) :
     entries[i].effective.xmlMode # entries[i].options.xmlMode}

\* the caller's object, were an override assigned to options.xmlMode
\* instead of put in a copy: it holds what the last override wrote
CallerOptionsShared(passed, entries) ==
  IF Overrides(entries) = {} THEN passed
  ELSE LET last == CHOOSE i \in Overrides(entries) :
                     \A j \in Overrides(entries) : j <= i
       IN  [passed EXCEPT !.xmlMode = entries[last].effective.xmlMode]

\* the caller's options object after a call whose log is entries: an
\* override is made in a copy, { ...options, xmlMode }, bound to the
\* parameter of renderTag, and nothing is assigned to a field of options
CallerOptions(passed, entries) == passed

\* what one call render(arg, options) leaves behind
Run(arg) ==
  LET r == render(tree, <<>>, ArgNodes(arg), options, 0)
  IN  /\ target' = arg
      /\ pre' = tree
      /\ tree' = r.tree
      /\ log' = r.log
      /\ status' = IF r.threw THEN "threw" ELSE "returned"
      /\ output' = r.out
      /\ calls' = calls + 1
      /\ options' = CallerOptions(options, r.log)
      /\ UNCHANGED doc

\* a call render(arg, options) of a caller that holds no result
Call(arg) == status = "idle" /\ Run(arg)

\* render(node, options) on a node of the tree
RenderOne == \E id \in DOMAIN tree : Call(OneNode(id))

\* render(nodes, options) on the child sequence of a node of the tree
RenderMany == \E p \in DOMAIN tree : Call(Array(tree[p].children))

\* the caller makes the call that has just returned once more
RenderAgain ==
  /\ status = "returned"
  /\ calls < MaxCalls
  /\ Run(target)

\* the caller is done with the result; of the call the tree keeps the
\* rewritten names, the serializer keeps nothing
Release ==
  /\ status \in {"returned", "threw"}
  /\ status' = "idle"
  /\ target' = NoTarget
  /\ pre' = tree
  /\ output' = <<>>
  /\ log' = <<>>
  /\ calls' = 0
  /\ UNCHANGED <<doc, tree, options>>

Next == RenderOne \/ RenderMany \/ RenderAgain \/ Release

Spec == Init /\ [][Next]_vars

(***************************************************************************)
(* render(node, options) of the class-based module: one DomSerializer is   *)
(* constructed with the caller's options and its render method is called   *)
(* once.  After the call options is this.options, output this.output.      *)
(***************************************************************************)
\* the caller's tree and options
SerializerInit ==
  /\ doc \in Documents
  /\ options \in AllOptions
  /\ tree = doc
  /\ status = "idle"
  /\ target = NoTarget
  /\ pre = doc
  /\ output = <<>>
  /\ log = <<>>
  /\ calls = 0

\* new DomSerializer(options).render(arg)
SerializerCall(arg) ==
  LET r == DomSerializer_render(Serializer(tree, <<>>, FALSE, output, options),
                                ArgNodes(arg), 1)
  IN  /\ status = "idle"
      /\ target' = arg
      /\ pre' = tree
      /\ tree' = r.tree
      /\ log' = r.log
      /\ status' = IF r.threw THEN "threw" ELSE "returned"
      /\ output' = r.out
      /\ options' = r.options
      /\ calls' = calls + 1
      /\ UNCHANGED doc

SerializerRenderOne == \E id \in DOMAIN tree : SerializerCall(OneNode(id))

SerializerRenderMany ==
  \E p \in DOMAIN tree : SerializerCall(Array(tree[p].children))

SerializerNext == SerializerRenderOne \/ SerializerRenderMany

SerializerSpec == SerializerInit /\ [][SerializerNext]_vars

(***************************************************************************)
(* Properties.                                                             *)
(***************************************************************************)
Returned == status = "returned"

\* the tokens of out that are t
Count(out, t) == Cardinality({i \in 1..Len(out) : out[i] = t})

\* the entries of the log of the call for node id
EntriesOf(id) == {i \in 1..Len(log) : log[i].node = id}

RECURSIVE ConcatRenders(_, _, _, _)
\* the renders of nodes[i..], each node on its own under options o, in
\* order and with nothing between them
ConcatRenders(t, nodes, i, o) ==
  IF i > Len(nodes) THEN <<>>
  ELSE renderNode(t, <<>>, nodes[i], o, 1).out
         \o ConcatRenders(t, nodes, i + 1, o)

\* C1: render on a sequence returns the concatenation, in order and with no
\* separator, of the render of each node under the same options; one node
\* renders as the one-element sequence does; a Root renders as the
\* concatenation of its children under the same options.
C1_RenderConcatenates ==
  Returned =>
    /\ ~target.single =>
         output = ConcatRenders(pre, target.nodes, 1, options)
    /\ target.single =>
         /\ output = render(pre, <<>>, <<target.node>>, options, 0).out
         /\ output = ConcatRenders(pre, <<target.node>>, 1, options)
         /\ pre[target.node].type = "root" =>
              output = ConcatRenders(pre, pre[target.node].children, 1, options)

C1_Witness ==
  /\ Returned
  /\ ~target.single
  /\ Len(target.nodes) >= 3
  /\ \A i \in 1..Len(target.nodes) :
       renderNode(pre, <<>>, target.nodes[i], options, 1).out # <<>>
  /\ Len(output) > 3

TagTypes == {"tag", "script", "style"}

\* the call rendered one element: its first log entry is that element's
RenderedElement ==
  Returned /\ target.single /\ pre[target.node].type \in TagTypes

\* "<name attrs": the opening tag up to its end, under the options eff
OpeningOf(element, eff) ==
  LET attribs == formatAttributes(element.attribs, eff)
  IN  <<"<", element.name>>
        \o (IF attribs # <<>> THEN <<" ">> \o attribs ELSE <<>>)

XmlOrForeign(o) == o.xmlMode \in {"true", "foreign"}

\* C2: a childless element is emitted as <name attrs/> in XML or foreign
\* mode unless selfClosingTags is false, as <name attrs /> in plain HTML
\* mode only if selfClosingTags is true and the name is a void element, and
\* is not self-closed otherwise; an element with children never is.
C2_SelfClosingDecision ==
  RenderedElement =>
    LET element == tree[target.node]
        eff     == log[1].effective
        open    == OpeningOf(element, eff)
        empty   == Len(element.children) = 0
    IN  IF empty /\ XmlOrForeign(eff) /\ eff.selfClosingTags # "false"
        THEN output = open \o <<"/>">>
        ELSE IF /\ empty
                /\ ~XmlOrForeign(eff)
                /\ eff.selfClosingTags = "true"
                /\ element.name \in singleTag
        THEN output = open \o <<" ", "/>">>
        ELSE /\ Len(output) > Len(open)
             /\ SubSeq(output, 1, Len(open) + 1) = open \o <<">">>

\* <input checked /> in plain HTML mode with selfClosingTags true
C2_Witness ==
  /\ RenderedElement
  /\ tree[target.node].name = "input"
  /\ options.xmlMode = "false"
  /\ options.emptyAttrs = "undef"
  /\ output = <<"<", "input", " ", "checked", " ", "/>">>

\* the key an attribute is emitted under
EmittedKey(attr, eff) ==
  IF eff.xmlMode = "foreign" THEN AttributeName(attr.key) ELSE attr.key

\* what C3 says one attribute is emitted as
ExpectedAttr(attr, eff) ==
  IF attr.absent \/ attr.value = <<>>
  THEN IF eff.emptyAttrs # "true" /\ eff.xmlMode = "false"
       THEN <<EmittedKey(attr, eff)>>
       ELSE <<EmittedKey(attr, eff), "=", QUOT, QUOT>>
  ELSE <<EmittedKey(attr, eff), "=", QUOT>>
         \o ApplyEncoder(AttrEncoder(eff), attr.value) \o <<QUOT>>

RECURSIVE ExpectedAttrs(_, _, _)
ExpectedAttrs(attribs, i, eff) ==
  IF i > Len(attribs) THEN <<>>
  ELSE <<" ">> \o ExpectedAttr(attribs[i], eff)
         \o ExpectedAttrs(attribs, i + 1, eff)

RECURSIVE QuotesIn(_, _)
\* the double quotes in the values of attribs[i..]
QuotesIn(attribs, i) ==
  IF i > Len(attribs) THEN 0
  ELSE (IF attribs[i].absent THEN 0 ELSE Count(attribs[i].value, QUOT))
         + QuotesIn(attribs, i + 1)

\* the call rendered one element without children: every token of the
\* output but the closing tag belongs to the opening tag
RenderedChildless ==
  RenderedElement /\ Len(pre[target.node].children) = 0

\* C4: whatever xmlMode, encodeEntities and decodeEntities are, the only
\* raw double quotes of an opening tag are the two that delimit each
\* attribute value, and every double quote of a value is emitted as &quot;.
C4_NoRawQuoteInAttribute ==
  RenderedChildless =>
    /\ Count(output, QUOT) = 2 * Count(output, "=")
    /\ Count(output, "&quot;") = QuotesIn(pre[target.node].attribs, 1)
    /\ \A i \in 1..Len(output) :
         output[i] = "=" => i < Len(output) /\ output[i + 1] = QUOT

\* a value with two double quotes, entity encoding disabled
C4_Witness ==
  /\ RenderedChildless
  /\ EncodingDisabled(options)
  /\ QuotesIn(pre[target.node].attribs, 1) = 2
  /\ Count(output, "&quot;") = 2
  /\ Count(output, QUOT) = 2

\* entity encoding is disabled: encodeEntities if it is set, else
\* decodeEntities, is false
Disabled(o) ==
  IF o.encodeEntities # "undef" THEN o.encodeEntities = "false"
  ELSE o.decodeEntities = "false"

\* the name of the parent of a node, "" when it has none
ParentName(t, id) == IF t[id].parent = 0 THEN "" ELSE t[t[id].parent].name

\* out is an entity encoding of data: token for token, no raw & or <
IsEncodingOf(out, data) ==
  /\ Len(out) = Len(data)
  /\ \A i \in 1..Len(out) :
       IF data[i] \in {"&", "<"} THEN out[i] \notin {"&", "<"}
       ELSE out[i] \in {data[i], EncodeXMLChar(data[i])}

\* the text nodes the call visited, with the options they were rendered under
TextVisits == {i \in 1..Len(log) : tree[log[i].node].type = "text"}

\* C5: a text node is emitted raw exactly when entity encoding is disabled,
\* or the mode is plain HTML and its parent is one of style, script, xmp,
\* iframe, noembed, noframes, plaintext, noscript; otherwise it is encoded.
C5_RawText ==
  Returned =>
    \A i \in TextVisits :
      LET id   == log[i].node
          o    == log[i].options
          data == tree[id].data
          out  == renderText(tree, <<>>, id, o, log[i].depth).out
          raw  == \/ Disabled(o)
                  \/ /\ o.xmlMode = "false"
                     /\ ParentName(tree, id) \in
                          {"style", "script", "xmp", "iframe", "noembed",
                           "noframes", "plaintext", "noscript"}
      IN  /\ IF raw THEN out = data ELSE IsEncodingOf(out, data)
          /\ target = OneNode(id) => output = out

\* "<br>" inside script, plain HTML mode, entity encoding on: emitted raw
C5_Witness ==
  /\ Returned
  /\ target.single
  /\ pre[target.node].type = "text"
  /\ ParentName(pre, target.node) = "script"
  /\ options.xmlMode = "false"
  /\ ~Disabled(options)
  /\ Count(output, "<") = 1
  /\ output = pre[target.node].data

\* the call rendered a script element whose only child is a text node
RenderedScript ==
  /\ RenderedElement
  /\ pre[target.node].name = "script"
  /\ Len(pre[target.node].children) = 1
  /\ pre[pre[target.node].children[1]].type = "text"

ScriptData == pre[pre[target.node].children[1]].data

ScriptAround(content) ==
  <<"<", "script", ">">> \o content \o <<"</", "script", ">">>

\* C6 as claimed: the text of a script element is emitted unchanged in every
\* mode, xmlMode false, true or "foreign".
C6_ScriptTextUnchangedInEveryMode ==
  RenderedScript => output = ScriptAround(ScriptData)

\* C6, amended: the text of a script element is emitted unchanged when
\* xmlMode is false or entity encoding is disabled; with xmlMode true or
\* "foreign" and entity encoding on it is entity-encoded.
C6_ScriptTextUnchangedInHtmlMode ==
  RenderedScript =>
    IF options.xmlMode = "false" \/ Disabled(options)
    THEN output = ScriptAround(ScriptData)
    ELSE /\ Len(output) = Len(ScriptData) + 6
         /\ IsEncodingOf(SubSeq(output, 4, Len(output) - 3), ScriptData)
         /\ output = ScriptAround(SubSeq(output, 4, Len(output) - 3))

\* <script>"<br>"</script> in plain HTML mode with entity encoding on
C6_Witness ==
  /\ RenderedScript
  /\ options.xmlMode = "false"
  /\ ~Disabled(options)
  /\ output = <<"<", "script", ">", QUOT, "<", "br", ">", QUOT,
                "</", "script", ">">>

\* the text visits the raw-text exemption does not apply to
EncodableTextVisits ==
  {i \in TextVisits :
     \/ log[i].options.xmlMode # "false"
     \/ ParentName(tree, log[i].node) \notin unencodedElements}

RECURSIVE AmpersandsIn(_, _)
\* the & characters in the values of attribs[i..]
AmpersandsIn(attribs, i) ==
  IF i > Len(attribs) THEN 0
  ELSE (IF attribs[i].absent THEN 0 ELSE Count(attribs[i].value, "&"))
         + AmpersandsIn(attribs, i + 1)

\* C7: entity encoding is disabled exactly when encodeEntities, if set, else
\* decodeEntities, is false: a & of a text or of an attribute value is
\* emitted raw exactly then.
C7_EncodingSwitch ==
  Returned =>
    /\ \A i \in EncodableTextVisits :
         LET data == tree[log[i].node].data
             out  == renderText(tree, <<>>, log[i].node, log[i].options,
                                log[i].depth).out
         IN  /\ Count(data, "&") > 0 =>
                  (Count(out, "&") > 0 <=> Disabled(log[i].options))
             /\ target = OneNode(log[i].node) => output = out
    /\ RenderedChildless /\ AmpersandsIn(pre[target.node].attribs, 1) > 0 =>
         (Count(output, "&") > 0 <=> Disabled(options))
    /\ LET o == options
       IN  /\ o.encodeEntities = "undef" /\ o.decodeEntities = "undef"
             => ~EncodingDisabled(o)
           /\ o.encodeEntities = "true" /\ o.decodeEntities = "false"
             => ~EncodingDisabled(o)
           /\ o.encodeEntities = "false" /\ o.decodeEntities = "true"
             => EncodingDisabled(o)

\* a text with & rendered with {encodeEntities: true, decodeEntities: false}
C7_Witness ==
  /\ Returned
  /\ target.single
  /\ pre[target.node].type = "text"
  /\ options.encodeEntities = "true"
  /\ options.decodeEntities = "false"
  /\ Count(pre[target.node].data, "&") > 0
  /\ Count(output, "&") = 0
  /\ Count(output, "&amp;") > 0

\* full XML-entity encoding of one character
FullXmlChar(c) ==
  CASE c = QUOT   -> "&quot;"
    [] c = "&"    -> "&amp;"
    [] c = "<"    -> "&lt;"
    [] c = ">"    -> "&gt;"
    [] c = EACUTE -> "&#xe9;"
    [] OTHER      -> c

\* what C8 says one character of an attribute value is emitted as
C8Char(o, c) ==
  IF Disabled(o) THEN (IF c = QUOT THEN "&quot;" ELSE c)
  ELSE IF XmlOrForeign(o) \/ o.encodeEntities # "utf8" THEN FullXmlChar(c)
  ELSE (CASE c = QUOT -> "&quot;" [] c = "&" -> "&amp;" [] OTHER -> c)

C8Attr(attr, eff) ==
  IF attr.absent \/ attr.value = <<>> THEN ExpectedAttr(attr, eff)
  ELSE <<EmittedKey(attr, eff), "=", QUOT>>
         \o [i \in 1..Len(attr.value) |-> C8Char(eff, attr.value[i])]
         \o <<QUOT>>

RECURSIVE C8Attrs(_, _, _)
C8Attrs(attribs, i, eff) ==
  IF i > Len(attribs) THEN <<>>
  ELSE <<" ">> \o C8Attr(attribs[i], eff) \o C8Attrs(attribs, i + 1, eff)

\* C8: an attribute value is encoded by exactly one of three encoders:
\* with encoding disabled only the double quote is replaced; otherwise, in
\* XML or foreign mode or with encodeEntities not "utf8", the value is fully
\* XML-encoded; otherwise (plain HTML, "utf8") the double quote and & are
\* escaped and non-ASCII characters and < are left alone.
C8_AttributeEncoder ==
  RenderedElement =>
    LET element  == tree[target.node]
        expected == <<"<", element.name>>
                      \o C8Attrs(element.attribs, 1, log[1].effective)
    IN  /\ Len(output) > Len(expected)
        /\ SubSeq(output, 1, Len(expected)) = expected

\* <input t="<é"> in plain HTML mode with encodeEntities "utf8"
C8_Witness ==
  /\ RenderedElement
  /\ options.xmlMode = "false"
  /\ options.encodeEntities = "utf8"
  /\ output = <<"<", "input", " ", "t", "=", QUOT, "<", EACUTE, QUOT, ">">>

\* HTML-text escaping of one character: non-ASCII and quotes preserved
HtmlTextChar(c) ==
  CASE c = "&" -> "&amp;" [] c = "<" -> "&lt;" [] c = ">" -> "&gt;"
    [] OTHER -> c

FullXml(data) == [i \in 1..Len(data) |-> FullXmlChar(data[i])]
HtmlText(data) == [i \in 1..Len(data) |-> HtmlTextChar(data[i])]

\* the text visits whose data is not passed through raw
EncodedTextVisits ==
  {i \in EncodableTextVisits : ~Disabled(log[i].options)}

TextOut(i) ==
  renderText(tree, <<>>, log[i].node, log[i].options, log[i].depth).out

RECURSIVE InsideForeignElement(_, _)
\* node id has an ancestor named svg or math
InsideForeignElement(t, id) ==
  /\ t[id].parent # 0
  /\ \/ t[t[id].parent].name \in {"svg", "math"}
     \/ InsideForeignElement(t, t[id].parent)

RECURSIVE ModeBelow(_, _)
\* the mode the children of node id are in when an HTML document is
\* rendered from its root: foreign below svg and math, plain HTML again
\* below an element that is the child of an integration point
ModeBelow(t, id) ==
  IF t[id].type \notin TagTypes THEN "false"
  ELSE IF t[id].name \in {"svg", "math"} THEN "foreign"
  ELSE IF /\ t[id].parent # 0
          /\ t[t[id].parent].name \in foreignModeIntegrationPoints
          /\ ModeBelow(t, t[id].parent) = "foreign"
       THEN "false"
  ELSE IF t[id].parent = 0 THEN "false"
  ELSE ModeBelow(t, t[id].parent)

\* the call rendered a whole HTML document with encodeEntities "utf8"
RenderedHtmlDocumentUtf8 ==
  /\ Returned
  /\ target.single
  /\ pre[target.node].type = "root"
  /\ options.xmlMode = "false"
  /\ options.encodeEntities = "utf8"

\* the encoder of a text that is not raw is chosen by the effective mode
C9_EncoderByMode ==
  Returned =>
    \A i \in EncodedTextVisits :
      LET o == log[i].options
      IN  /\ TextOut(i) = IF XmlOrForeign(o) \/ o.encodeEntities # "utf8"
                          THEN FullXml(tree[log[i].node].data)
                          ELSE HtmlText(tree[log[i].node].data)
          /\ target = OneNode(log[i].node) => output = TextOut(i)

Called == status \in {"returned", "threw"}

\* the call rendered a whole document with xmlMode false
RenderedHtmlDocument ==
  /\ Returned
  /\ target.single
  /\ pre[target.node].type = "root"
  /\ options.xmlMode = "false"

\* C10: a mode override established for one element's subtree never reaches
\* a later sibling: every node is rendered under the options its parent
\* went on with (the options of the call for the nodes of the argument),
\* so siblings are rendered under the same options; in an HTML document the
\* mode of a node is decided by its ancestors alone.
C10_OverrideStaysInSubtree ==
  Called =>
    /\ \A i \in 1..Len(log) :
         IF log[i].depth = 1 THEN log[i].options = options
         ELSE \E j \in 1..(i - 1) :
                /\ log[j].node = tree[log[i].node].parent
                /\ log[j].depth = log[i].depth - 1
                /\ log[i].options = log[j].effective
    /\ \A i, k \in 1..Len(log) :
         /\ tree[log[i].node].parent = tree[log[k].node].parent
         /\ log[i].depth = log[k].depth
         => log[i].options = log[k].options
    /\ RenderedHtmlDocument =>
         \A i \in 1..Len(log) :
           log[i].depth > 1 =>
             log[i].options.xmlMode
               = ModeBelow(tree, tree[log[i].node].parent)

\* in an HTML document: img below foreignObject is rendered in plain HTML
\* mode, radialGradient, which follows foreignObject, in foreign mode, and
\* br, which follows svg, in plain HTML mode
C10_Witness ==
  /\ RenderedHtmlDocument
  /\ \E i, j, k \in 1..Len(log) :
       /\ i < j /\ j < k
       /\ tree[log[i].node].name = "img"
       /\ ParentName(tree, log[i].node) = "foreignObject"
       /\ log[i].effective.xmlMode = "false"
       /\ tree[log[j].node].name = "radialGradient"
       /\ tree[log[j].node].parent = tree[tree[log[i].node].parent].parent
       /\ log[j].effective.xmlMode = "foreign"
       /\ tree[log[k].node].name = "br"
       /\ log[k].effective.xmlMode = "false"
  /\ \E n \in 1..(Len(output) - 2) :
       SubSeq(output, n, n + 2) = <<"<", "radialGradient", "/>">>
  /\ \E n \in 1..(Len(output) - 3) :
       SubSeq(output, n, n + 3) = <<"<", "br", ">", "<">>

\* the names of the integration points
IntegrationPoints ==
  {"mi", "mo", "mn", "ms", "mtext", "annotation-xml", "foreignObject",
   "desc", "title"}

RECURSIVE IsBelow(_, _, _)
\* node id is a descendant of node anc
IsBelow(t, anc, id) ==
  /\ t[id].parent # 0
  /\ \/ t[id].parent = anc
     \/ IsBelow(t, anc, t[id].parent)

RECURSIVE PlainBetween(_, _, _)
\* for a descendant id of anc: no node from anc down to the parent of id is
\* named svg or math
PlainBetween(t, anc, id) ==
  LET p == t[id].parent
  IN  /\ t[p].name \notin {"svg", "math"}
      /\ \/ p = anc
         \/ PlainBetween(t, anc, p)

\* the elements the call reached in foreign mode below an integration point
ClearedVisits ==
  {i \in 1..Len(log) :
     /\ tree[log[i].node].type \in TagTypes
     /\ log[i].options.xmlMode = "foreign"
     /\ ParentName(tree, log[i].node) \in IntegrationPoints}

\* C11 as claimed: an element reached in foreign mode whose parent is an
\* integration point is rendered in plain HTML mode, and so is every one of
\* its descendants: the clearing is not undone within its subtree.
C11_ClearingNeverUndone ==
  Called =>
    \A i \in ClearedVisits :
      /\ log[i].effective.xmlMode = "false"
      /\ \A j \in 1..Len(log) :
           IsBelow(tree, log[i].node, log[j].node) =>
             /\ log[j].options.xmlMode = "false"
             /\ log[j].effective.xmlMode = "false"

\* C11, amended: an element reached in foreign mode whose parent is an
\* integration point is rendered in plain HTML mode unless it is itself named
\* svg or math, which puts it back in foreign mode; its descendants are
\* rendered in plain HTML mode down to the first svg or math element, which
\* is in foreign mode again.
C11_ClearedUntilForeignElement ==
  Called =>
    \A i \in ClearedVisits :
      /\ log[i].effective.xmlMode =
           IF tree[log[i].node].name \in {"svg", "math"} THEN "foreign"
           ELSE "false"
      /\ \A j \in 1..Len(log) :
           /\ IsBelow(tree, log[i].node, log[j].node)
           /\ PlainBetween(tree, log[i].node, log[j].node)
           => /\ log[j].options.xmlMode = "false"
              /\ log[j].effective.xmlMode =
                   IF /\ tree[log[j].node].type \in TagTypes
                      /\ tree[log[j].node].name \in {"svg", "math"}
                   THEN "foreign" ELSE "false"

\* <math><mi><b>text<svg ..><clipPath/></svg></b></mi></math> in an HTML
\* document: b and its text are in plain HTML mode, the svg below b is in
\* foreign mode again
C11_Witness ==
  /\ RenderedHtmlDocument
  /\ \E i \in ClearedVisits :
       /\ tree[log[i].node].name = "b"
       /\ ParentName(tree, log[i].node) = "mi"
       /\ log[i].effective.xmlMode = "false"
       /\ \E j, k \in 1..Len(log) :
            /\ tree[log[j].node].parent = log[i].node
            /\ tree[log[j].node].type = "text"
            /\ log[j].options.xmlMode = "false"
            /\ tree[log[k].node].parent = log[i].node
            /\ tree[log[k].node].name = "svg"
            /\ log[k].options.xmlMode = "false"
            /\ log[k].effective.xmlMode = "foreign"
  /\ \E n \in 1..(Len(output) - 2) :
       SubSeq(output, n, n + 2) = <<"<", "clipPath", "/>">>

RECURSIVE ForeignBetween(_, _, _)
\* for a descendant id of anc: no node below anc down to the parent of id
\* is an integration point
ForeignBetween(t, anc, id) ==
  LET p == t[id].parent
  IN  \/ p = anc
      \/ /\ t[p].name \notin IntegrationPoints
         /\ ForeignBetween(t, anc, p)

\* the svg and math elements the call reached in foreign mode as the child
\* of an integration point
ReenteredVisits ==
  {i \in ClearedVisits : tree[log[i].node].name \in {"svg", "math"}}

\* the render of the node of log entry i under the options it was reached
\* with
NodeOut(i) ==
  renderNode(tree, <<>>, log[i].node, log[i].options, log[i].depth).out

CanonicalElementName(name) ==
  CASE name = "foreignobject"  -> "foreignObject"
    [] name = "radialgradient" -> "radialGradient"
    [] name = "clippath"       -> "clipPath"
    [] OTHER                   -> name

\* the elements the call visited
ElementVisits == {i \in 1..Len(log) : tree[log[i].node].type \in TagTypes}

\* out is an element emitted under name: its opening tag starts with the
\* name, and it ends self-closed, or with the closing tag of that name, or,
\* for a void element in plain HTML mode, without a closing tag
EmittedUnder(out, name, eff) ==
  /\ Len(out) >= 3
  /\ SubSeq(out, 1, 2) = <<"<", name>>
  /\ \/ out[Len(out)] = "/>"
     \/ SubSeq(out, Len(out) - 2, Len(out)) = <<"</", name, ">">>
     \/ /\ eff.xmlMode = "false"
        /\ name \in singleTag

\* C13: an element reached while the inherited mode is foreign is emitted,
\* in its opening and in its closing tag, under the canonical mixed-case
\* name when its stored name is a key of the foreign-element-name table and
\* under its stored name when it is not; reached in another mode it is
\* emitted under its stored name.
C13_CanonicalElementName ==
  Returned =>
    \A i \in ElementVisits :
      LET stored == pre[log[i].node].name
          name   == IF log[i].options.xmlMode = "foreign"
                    THEN CanonicalElementName(stored)
                    ELSE stored
      IN  /\ EmittedUnder(NodeOut(i), name, log[i].effective)
          /\ target = OneNode(log[i].node) => output = NodeOut(i)

\* an HTML document with <svg><foreignobject ..>..</foreignobject>
\* <radialgradient> ..: both are emitted under their mixed-case names, svg
\* and circle under their stored names
C13_Witness ==
  /\ RenderedHtmlDocument
  /\ \E i, j, k \in ElementVisits :
       /\ pre[log[i].node].name = "radialgradient"
       /\ log[i].options.xmlMode = "foreign"
       /\ NodeOut(i) = <<"<", "radialGradient", "/>">>
       /\ pre[log[j].node].name = "foreignobject"
       /\ SubSeq(NodeOut(j), 1, 2) = <<"<", "foreignObject">>
       /\ SubSeq(NodeOut(j), Len(NodeOut(j)) - 2, Len(NodeOut(j)))
            = <<"</", "foreignObject", ">">>
       /\ pre[log[k].node].name = "circle"
       /\ log[k].options.xmlMode = "foreign"
       /\ SubSeq(NodeOut(k), 1, 2) = <<"<", "circle">>
  /\ Count(output, "radialGradient") = 1
  /\ Count(output, "foreignObject") = 2
  /\ Count(output, "radialgradient") = 0

\* the foreign-attribute-name table: the canonical name of a key, the key
\* itself otherwise
CanonicalAttributeName(key) ==
  CASE key = "viewbox"          -> "viewBox"
    [] key = "requiredfeatures" -> "requiredFeatures"
    [] OTHER                    -> key

RECURSIVE C14Attrs(_, _, _)
\* what C14 says attribs[i..] are emitted as: the key through the table
\* when the effective mode is foreign, the key as stored otherwise
C14Attrs(attribs, i, eff) ==
  IF i > Len(attribs) THEN <<>>
  ELSE <<" ",
         IF eff.xmlMode = "foreign"
         THEN CanonicalAttributeName(attribs[i].key)
         ELSE attribs[i].key>>
         \o Tail(ExpectedAttr(attribs[i], eff))
         \o C14Attrs(attribs, i + 1, eff)

\* C14: the attribute names of an element are rewritten through the
\* foreign-attribute-name table exactly when the effective mode of the
\* element is foreign, the svg or math element that enters foreign mode
\* included; under xmlMode true and in plain HTML mode, an HTML child of an
\* integration point included, every name is emitted as stored.
C14_AttributeNamesByEffectiveMode ==
  Returned =>
    \A i \in ElementVisits :
      LET element == tree[log[i].node]
          entered == /\ log[i].options.xmlMode = "false"
                     /\ element.name \in {"svg", "math"}
          left    == /\ log[i].options.xmlMode = "foreign"
                     /\ ParentName(tree, log[i].node) \in IntegrationPoints
                     /\ element.name \notin {"svg", "math"}
          open    == <<"<", element.name>>
                       \o C14Attrs(element.attribs, 1, log[i].effective)
      IN  /\ entered => log[i].effective.xmlMode = "foreign"
          /\ left => log[i].effective.xmlMode = "false"
          /\ log[i].options.xmlMode = "true" =>
               log[i].effective.xmlMode = "true"
          /\ Len(NodeOut(i)) > Len(open)
          /\ SubSeq(NodeOut(i), 1, Len(open)) = open
          /\ NodeOut(i)[Len(open) + 1] \in {">", "/>", " "}
          /\ target = OneNode(log[i].node) => output = NodeOut(i)

\* an HTML document: foreignobject below svg gets requiredFeatures, the img
\* below it keeps viewbox, the svg next to the img gets viewBox
C14_Witness ==
  /\ RenderedHtmlDocument
  /\ options.emptyAttrs = "undef"
  /\ \E i, j \in ElementVisits :
       /\ log[i].effective.xmlMode = "foreign"
       /\ Len(NodeOut(i)) > 7
       /\ SubSeq(NodeOut(i), 1, 7)
            = <<"<", "foreignObject", " ", "requiredFeatures", "=", QUOT, QUOT>>
       /\ tree[log[j].node].parent = log[i].node
       /\ log[j].effective.xmlMode = "false"
       /\ Len(NodeOut(j)) > 6
       /\ SubSeq(NodeOut(j), Len(NodeOut(j)) - 2, Len(NodeOut(j)))
            = <<" ", "viewbox", ">">>
  /\ Count(output, "viewBox") = 1
  /\ Count(output, "viewbox") = 1

\* the childless elements that are not void elements and that the call
\* reached with xmlMode false, selfClosingTags not being requested
PlainChildlessVisits ==
  {i \in ElementVisits :
     /\ Len(tree[log[i].node].children) = 0
     /\ tree[log[i].node].name \notin singleTag
     /\ log[i].options.xmlMode = "false"
     /\ log[i].options.selfClosingTags # "true"}

\* <name attrs></name>, the attributes as the mode of eff has them
OpenThenClose(element, eff) ==
  <<"<", element.name>> \o ExpectedAttrs(element.attribs, 1, eff)
    \o <<">", "</", element.name, ">">>

\* C15 as claimed: every childless element that is not a void element,
\* rendered with xmlMode false and selfClosingTags not requested, is emitted
\* as <name attrs></name>.
C15_ChildlessHtmlElement ==
  Returned =>
    \A i \in PlainChildlessVisits :
      /\ NodeOut(i) = OpenThenClose(tree[log[i].node], log[i].effective)
      /\ target = OneNode(log[i].node) => output = NodeOut(i)

\* C15, amended: every childless element that is not a void element and is
\* not named svg or math, rendered with xmlMode false and selfClosingTags
\* not requested, is emitted as <name attrs></name>; a childless svg or math
\* enters foreign mode and is emitted as <name attrs/> unless
\* selfClosingTags is false.
C15_ChildlessHtmlElementNotForeign ==
  Returned =>
    \A i \in PlainChildlessVisits :
      LET element == tree[log[i].node]
          foreign == [log[i].options EXCEPT !.xmlMode = "foreign"]
      IN  /\ NodeOut(i) =
               IF element.name \notin {"svg", "math"}
               THEN OpenThenClose(element, log[i].options)
               ELSE IF log[i].options.selfClosingTags = "false"
               THEN OpenThenClose(element, foreign)
               ELSE <<"<", element.name>>
                      \o ExpectedAttrs(element.attribs, 1, foreign)
                      \o <<"/>">>
          /\ target = OneNode(log[i].node) => output = NodeOut(i)

\* <div dropdown-toggle></div> with the default options
C15_Witness ==
  /\ RenderedChildless
  /\ options.xmlMode = "false"
  /\ options.selfClosingTags = "undef"
  /\ options.emptyAttrs = "undef"
  /\ 1 \in PlainChildlessVisits
  /\ output = <<"<", "div", " ", "dropdown-toggle", ">", "</", "div", ">">>

\* the void elements the call visited
VoidVisits == {i \in ElementVisits : tree[log[i].node].name \in singleTag}

ChildlessVisits ==
  {i \in ElementVisits : Len(tree[log[i].node].children) = 0}

\* C17: with selfClosingTags false every childless element, void elements
\* included, is emitted as an opening tag followed by its closing tag,
\* whatever xmlMode is: the siblings foo and br as <foo></foo><br></br>.
C17_ExplicitClosingTags ==
  Returned /\ options.selfClosingTags = "false" =>
    \A i \in ChildlessVisits :
      /\ NodeOut(i) = OpenThenClose(tree[log[i].node], log[i].effective)
      /\ target = OneNode(log[i].node) => output = NodeOut(i)

\* the part of C17 the code keeps: with selfClosingTags false a childless
\* element is emitted as an opening tag followed by its closing tag in XML
\* and foreign mode, and in plain HTML mode unless it is a void element,
\* which is emitted as its opening tag alone.
C17_ExplicitClosingTagsButVoidInHtml ==
  Returned /\ options.selfClosingTags = "false" =>
    \A i \in ChildlessVisits :
      LET element == tree[log[i].node]
          eff     == log[i].effective
      IN  /\ NodeOut(i) =
               IF eff.xmlMode = "false" /\ element.name \in singleTag
               THEN <<"<", element.name>>
                      \o ExpectedAttrs(element.attribs, 1, eff) \o <<">">>
               ELSE OpenThenClose(element, eff)
          /\ target = OneNode(log[i].node) => output = NodeOut(i)

\* the siblings foo and br with selfClosingTags false and xmlMode false:
\* <foo></foo><br>
C17_Witness ==
  /\ Returned
  /\ options.selfClosingTags = "false"
  /\ options.xmlMode = "false"
  /\ \E n \in 1..(Len(output) - 9) :
       /\ SubSeq(output, n, n + 9)
            = <<"<", "foo", ">", "</", "foo", ">", "<", "br", ">", "<">>
  /\ Count(output, "/>") = 0

\* the comments, directives and doctypes the call visited
MarkupVisits ==
  {i \in 1..Len(log) :
     tree[log[i].node].type \in {"comment", "directive", "doctype"}}

\* C18: a comment is emitted as <!-- data --> and a directive or doctype as
\* < data >, the data verbatim (-->, &, < and the double quote included),
\* and the same for every value of xmlMode, encodeEntities, decodeEntities,
\* selfClosingTags and emptyAttrs.
C18_CommentAndDirectiveVerbatim ==
  Returned =>
    \A i \in MarkupVisits :
      LET id       == log[i].node
          expected == IF tree[id].type = "comment"
                      THEN <<"<!--">> \o tree[id].data \o <<"-->">>
                      ELSE <<"<">> \o tree[id].data \o <<">">>
      IN  /\ NodeOut(i) = expected
          /\ \A o \in AllOptions :
               renderNode(tree, <<>>, id, o, 1).out = expected
          /\ target = OneNode(id) => output = expected

\* the comment < -->&<" > in XML mode with entity encoding on
C18_Witness ==
  /\ Returned
  /\ target.single
  /\ pre[target.node].type = "comment"
  /\ options.xmlMode = "true"
  /\ ~Disabled(options)
  /\ output = <<"<!--", " ", "-->", "&", "<", QUOT, "-->">>

\* the CDATA nodes the call visited whose first child is a text node
CdataVisits ==
  {i \in 1..Len(log) :
     /\ tree[log[i].node].type = "cdata"
     /\ Len(tree[log[i].node].children) > 0
     /\ tree[tree[log[i].node].children[1]].type = "text"}

\* C19: a CDATA node is emitted as <![CDATA[ + the data of its first child
\* + ]]>, the data never entity-encoded whatever the options are, and its
\* other children are neither emitted nor rendered.
C19_CdataVerbatim ==
  Returned =>
    \A i \in CdataVisits :
      LET id       == log[i].node
          first    == tree[tree[id].children[1]]
          expected == <<"<![CDATA[">> \o first.data \o <<"]]>">>
      IN  /\ NodeOut(i) = expected
          /\ \A o \in AllOptions :
               renderNode(tree, <<>>, id, o, 1).out = expected
          /\ \A j \in 1..Len(log) : tree[log[j].node].parent # id
          /\ target = OneNode(id) => output = expected

\* <a ..><![CDATA[ asdf&asdf ]]><c/><![CDATA[&]]>..</a> in XML mode with
\* entity encoding on: the & of both CDATA nodes is emitted raw, the second
\* child of the second one, the text dropped, is not emitted
C19_Witness ==
  /\ RenderedElement
  /\ pre[target.node].name = "a"
  /\ options.xmlMode = "true"
  /\ ~Disabled(options)
  /\ Cardinality(CdataVisits) = 2
  /\ \E n \in 1..(Len(output) - 9) :
       SubSeq(output, n, n + 9)
         = <<"<![CDATA[", " asdf", "&", "asdf ", "]]>", "<", "c", "/>",
             "<![CDATA[", "&">>
  /\ Count(output, "&") = 2
  /\ Count(output, "dropped") = 0

\* the call reached a CDATA node that has no child
ReachedEmptyCdata ==
  \E i \in 1..Len(log) :
    /\ tree[log[i].node].type = "cdata"
    /\ Len(tree[log[i].node].children) = 0

\* C20: malformed content never makes render fail: a call that reaches a
\* CDATA node without its text child runs to completion and returns a
\* string, and no call raises an exception.
C20_MalformedInputNeverThrows ==
  /\ status # "threw"
  /\ Called /\ ReachedEmptyCdata => Returned

\* render of <p><![CDATA[]]></p><br>, the CDATA node without a child: the
\* call ends with an exception at the CDATA node, the br is not reached
C20_Witness ==
  /\ status = "threw"
  /\ target.single
  /\ pre[target.node].type = "root"
  /\ ReachedEmptyCdata
  /\ tree[log[Len(log)].node].type = "cdata"
  /\ \A i \in 1..Len(log) : tree[log[i].node].name # "br"
  /\ output = <<>>

\* the kinds renderNode has a case for
KnownKinds ==
  {"root", "doctype", "directive", "comment", "cdata", "script", "style",
   "tag", "text"}

\* the call reached a node of a kind renderNode has no case for
ReachedUnknownKind ==
  \E i \in 1..Len(log) : tree[log[i].node].type \notin KnownKinds

\* C21: a node whose kind is outside the closed set makes render fail: a call
\* that reaches one ends with an error, and never returns a string the node
\* was dropped from or contributed text to.
C21_UnknownKindFailsFast ==
  Called /\ ReachedUnknownKind => status = "threw"

\* render of <p>?</p>?a, ? a node of an unknown kind: the call returns
\* <p>undefined</p>undefineda
C21_Witness ==
  /\ Returned
  /\ target.single
  /\ pre[target.node].type = "root"
  /\ ReachedUnknownKind
  /\ options.xmlMode = "false"
  /\ output = <<"<", "p", ">", "undefined", "</", "p", ">", "undefined", "a">>

\* what the call the caller is looking at returns on the tree as the parser
\* handed it over, before any call of render
OutputOnFreshTree == render(doc, <<>>, ArgNodes(target), options, 0).out

\* C22: render is pure across calls: for a fixed argument and fixed options
\* the returned string does not depend on the calls of render made before
\* on nodes of the same tree; it is the string returned on the tree no call
\* has touched.
C22_RenderPureAcrossCalls ==
  Returned => output = OutputOnFreshTree

\* the img below foreignobject rendered with xmlMode "foreign" after the
\* svg above it has been rendered: <img src="test.png" viewbox> where the
\* same call on the fresh tree gives <img src="test.png" viewBox=""/>
C22_Witness ==
  /\ RenderedChildless
  /\ options.xmlMode = "foreign"
  /\ options.selfClosingTags = "undef"
  /\ options.emptyAttrs = "undef"
  /\ pre[target.node].name = "img"
  /\ ParentName(pre, target.node) = "foreignObject"
  /\ ParentName(doc, target.node) = "foreignobject"
  /\ output = <<"<", "img", " ", "src", "=", QUOT, "test.png", QUOT, " ",
                "viewbox", ">">>
  /\ OutputOnFreshTree
       = <<"<", "img", " ", "src", "=", QUOT, "test.png", QUOT, " ",
           "viewBox", "=", QUOT, QUOT, "/>">>

\* C23: the normalization of names is idempotent: when a call of render has
\* returned and the same call is made again, the second call rewrites no
\* element name, so the tree is unchanged, and returns the string the first
\* call returned.
C23_SecondRenderIsNoOp ==
  [][status = "returned" /\ status' # "idle" =>
       /\ target' = target
       /\ tree' = tree
       /\ status' = "returned"
       /\ output' = output]_vars

\* the second render of an HTML document with svg > foreignobject: the
\* first one rewrote names, the second one found them rewritten
C23_Witness ==
  /\ RenderedHtmlDocument
  /\ calls = 2
  /\ pre = tree
  /\ \E id \in DOMAIN tree :
       /\ doc[id].name = "foreignobject"
       /\ tree[id].name = "foreignObject"
       /\ \E i \in 1..Len(log) :
            log[i].node = id /\ log[i].options.xmlMode = "foreign"
  /\ Count(output, "foreignObject") = 2

\* the tree has an element named svg or math
HasForeignElement(t) ==
  \E id \in DOMAIN t :
    t[id].type \in TagTypes /\ t[id].name \in {"svg", "math"}

\* C24: a call of render adds, removes and reorders no node and changes no
\* node's kind, attribute mapping, children, parent or data; the only field
\* it writes is the name of an element it reached while the inherited mode
\* was foreign; under xmlMode true, and under plain HTML for a tree without
\* svg and math elements, it leaves the tree unchanged.
C24_OnlyNamesAreWritten ==
  Called =>
    /\ DOMAIN tree = DOMAIN pre
    /\ DOMAIN tree = DOMAIN doc
    /\ \A id \in DOMAIN tree :
         /\ tree[id].type = pre[id].type
         /\ tree[id].attribs = pre[id].attribs
         /\ tree[id].children = pre[id].children
         /\ tree[id].parent = pre[id].parent
         /\ tree[id].data = pre[id].data
         /\ tree[id].attribs = doc[id].attribs
         /\ tree[id].name # pre[id].name =>
              /\ tree[id].type \in TagTypes
              /\ \E i \in 1..Len(log) :
                   /\ log[i].node = id
                   /\ log[i].options.xmlMode = "foreign"
    /\ options.xmlMode = "true" => tree = pre
    /\ options.xmlMode = "false" /\ ~HasForeignElement(pre) => tree = pre

\* the first render of an HTML document with svg > foreignobject: the names
\* foreignobject and radialgradient are rewritten, the attribute keys
\* requiredfeatures and viewbox are emitted rewritten and stored as they were
C24_Witness ==
  /\ RenderedHtmlDocument
  /\ tree # pre
  /\ pre = doc
  /\ \E id \in DOMAIN tree :
       /\ pre[id].name = "foreignobject"
       /\ tree[id].name = "foreignObject"
       /\ tree[id].attribs[1].key = "requiredfeatures"
  /\ \E id \in DOMAIN tree :
       pre[id].name = "radialgradient" /\ tree[id].name = "radialGradient"
  /\ Count(output, "requiredFeatures") = 1
  /\ Count(output, "viewBox") = 1

SameMode(a, b) == a = b \/ (~Truthy(a) /\ ~Truthy(b))

\* the visits of the siblings rendered after the node of visit i
LaterSiblings(i) ==
  {k \in (i + 1)..Len(log) :
     tree[log[k].node].parent = tree[log[i].node].parent}

\* the visits of the elements below an integration point that has an
\* element child and was itself rendered in foreign mode
OpenedIntegrationPoints ==
  {i \in DOMAIN log :
     /\ tree[log[i].node].type = "tag"
     /\ tree[log[i].node].name \in IntegrationPoints
     /\ log[i].effective.xmlMode = "foreign"
     /\ \E c \in DOMAIN tree : /\ tree[c].parent = log[i].node
                               /\ tree[c].type \in TagTypes}

\* C26: in the class-based DomSerializer every renderTag call that overrides
\* xmlMode puts this.options.xmlMode back before it returns: the siblings
\* after it enter under the mode the call entered under, and the elements
\* that follow a foreignObject with element children are rendered in
\* foreign mode.
C26_OverrideRestoredBeforeSibling ==
  /\ \A i \in Overrides(log) : \A k \in LaterSiblings(i) :
       SameMode(log[k].options.xmlMode, log[i].options.xmlMode)
  /\ \A i \in OpenedIntegrationPoints : \A k \in LaterSiblings(i) :
       tree[log[k].node].type \in TagTypes
         => log[k].effective.xmlMode = "foreign"

\* the svg document in HTML mode: img, below foreignObject, leaves foreign
\* mode and this.options stays there, so radialGradient, the sibling after
\* foreignObject, is entered and rendered in HTML mode under its lowercase
\* name
C26_Witness ==
  /\ status = "returned"
  /\ doc = SvgDocument
  /\ target = OneNode(2)
  /\ \E i, j, k \in DOMAIN log :
       /\ i < j /\ j < k
       /\ log[i].node = 3 /\ log[i].effective.xmlMode = "foreign"
       /\ log[j].node = 4 /\ j \in Overrides(log)
       /\ log[j].options.xmlMode = "foreign"
       /\ log[k].node = 8 /\ k \in LaterSiblings(i)
       /\ log[k].effective.xmlMode = "false"
       /\ tree[8].name = "radialgradient"

(***************************************************************************)
(* C27.  Text that is the direct child of an integration point.            *)
(***************************************************************************)
\* the visits of the texts whose parent is an integration point that was
\* rendered in foreign mode, entity encoding on
IntegrationPointTexts ==
  {i \in TextVisits :
     /\ ParentName(tree, log[i].node) \in IntegrationPoints
     /\ \E j \in EntriesOf(tree[log[i].node].parent) :
          j < i /\ log[j].effective.xmlMode = "foreign"
     /\ ~Disabled(log[i].options)}

\* C27: a text that is the direct child of an integration-point element
\* inside foreign content is encoded by the plain-HTML text rules: with
\* encodeEntities "utf8" it gets HTML-text escaping, its non-ASCII
\* characters left as they are.
C27_IntegrationPointTextIsHtmlText ==
  \A i \in IntegrationPointTexts :
    log[i].options.encodeEntities = "utf8"
      => TextOut(i) = HtmlText(tree[log[i].node].data)

\* the text of title inside svg, HTML document, encodeEntities "utf8": the
\* text is rendered under the foreign mode title itself is in, its e-acute
\* as a numeric reference
C27_Witness ==
  /\ Returned
  /\ doc = SvgDocument
  /\ target = OneNode(1)
  /\ options.xmlMode = "false"
  /\ options.encodeEntities = "utf8"
  /\ \E i \in IntegrationPointTexts :
       /\ log[i].node = 10
       /\ tree[9].name = "title"
       /\ log[i].options.xmlMode = "foreign"
       /\ tree[10].data = <<EACUTE, "&">>
       /\ TextOut(i) = <<"&#xe9;", "&amp;">>
  /\ \E n \in 1..(Len(output) - 3) :
       /\ output[n] = "title" /\ output[n + 1] = ">"
       /\ output[n + 2] = "&#xe9;" /\ output[n + 3] = "&amp;"

(***************************************************************************)
(* C28.  Strict XML mode.                                                  *)
(***************************************************************************)
\* the opening tag of an element under its stored name and stored keys
StoredOpening(element, o) ==
  <<"<", element.name>>
    \o ExpectedAttrs(element.attribs, 1, [o EXCEPT !.xmlMode = "true"])

\* C28: when the top-level options have xmlMode true, every node is
\* rendered with xmlMode true, svg, math and the integration points
\* included, and no element name and no attribute name is rewritten: the
\* tree is left as it was and every opening tag carries the stored name and
\* the stored keys.
C28_StrictXmlModeIsStable ==
  Called /\ options.xmlMode = "true" =>
    /\ \A i \in DOMAIN log :
         log[i].options.xmlMode = "true" /\ log[i].effective.xmlMode = "true"
    /\ tree = pre
    /\ Returned =>
         \A i \in ElementVisits :
           LET opening == StoredOpening(pre[log[i].node], options)
           IN  /\ Len(NodeOut(i)) >= Len(opening)
               /\ SubSeq(NodeOut(i), 1, Len(opening)) = opening

\* the svg document with xmlMode true: svg, foreignobject, its child img and
\* radialgradient are all rendered in XML mode under their stored names
C28_Witness ==
  /\ Returned
  /\ doc = SvgDocument
  /\ target = OneNode(2)
  /\ options.xmlMode = "true"
  /\ options.selfClosingTags = "undef"
  /\ \A id \in {2, 3, 4, 6, 8, 9, 10} : \E i \in EntriesOf(id) :
       log[i].effective.xmlMode = "true"
  /\ SubSeq(output, 1, 11)
       = <<"<", "svg", ">", "<", "foreignobject", " ", "requiredfeatures",
           "=", QUOT, QUOT, ">">>
  /\ \E n \in 1..(Len(output) - 2) :
       /\ output[n] = "<" /\ output[n + 1] = "radialgradient"
       /\ output[n + 2] = "/>"

(***************************************************************************)
(* C29.  svg and math are never rendered by the plain-HTML rules.          *)
(***************************************************************************)
\* the visits of the elements named svg or math
ForeignElementVisits ==
  {i \in ElementVisits : tree[log[i].node].name \in {"svg", "math"}}

\* the attributes as XML and foreign mode write them: the key, through the
\* table in foreign mode, then ="value", also for an empty value
RECURSIVE XmlAttrs(_, _, _)
XmlAttrs(attribs, i, eff) ==
  IF i > Len(attribs) THEN <<>>
  ELSE <<" ", EmittedKey(attribs[i], eff), "=", QUOT>>
         \o (IF attribs[i].absent THEN <<>>
             ELSE ApplyEncoder(AttrEncoder(eff), attribs[i].value))
         \o <<QUOT>> \o XmlAttrs(attribs, i + 1, eff)

\* C29: an element named svg or math is never serialized under plain-HTML
\* rules: whatever mode it inherits and whatever its parent, its effective
\* xmlMode is true or "foreign"; its attributes with an empty value are
\* written key="", and when it is childless and selfClosingTags is not
\* false the element is the opening tag closed by /> without a space.
C29_SvgAndMathNeverPlainHtml ==
  \A i \in ForeignElementVisits :
    LET element == tree[log[i].node]
        opening == <<"<", element.name>>
                     \o XmlAttrs(element.attribs, 1, log[i].effective)
    IN  /\ log[i].effective.xmlMode \in {"true", "foreign"}
        /\ Returned =>
             /\ Len(NodeOut(i)) > Len(opening)
             /\ SubSeq(NodeOut(i), 1, Len(opening)) = opening
             /\ Len(element.children) = 0
                  /\ log[i].options.selfClosingTags # "false"
                  => NodeOut(i) = opening \o <<"/>">>

\* the MathML document in HTML mode: the childless svg below mi, an
\* integration point, inherits foreign mode and is written <svg/>; the
\* childless svg at the top inherits HTML mode and is written
\* <svg viewBox=""/>
C29_Witness ==
  /\ Returned
  /\ doc = MathDocument
  /\ target = OneNode(1)
  /\ options.xmlMode = "false"
  /\ options.selfClosingTags = "undef"
  /\ options.emptyAttrs = "undef"
  /\ \E i \in ForeignElementVisits :
       /\ log[i].node = 7
       /\ ParentName(tree, 7) = "mi"
       /\ log[i].options.xmlMode = "foreign"
       /\ log[i].effective.xmlMode = "foreign"
       /\ NodeOut(i) = <<"<", "svg", "/>">>
  /\ \E i \in ForeignElementVisits :
       /\ log[i].node = 15
       /\ log[i].options.xmlMode = "false"
       /\ log[i].effective.xmlMode = "foreign"
  /\ Len(output) > 8
  /\ SubSeq(output, Len(output) - 7, Len(output))
       = <<"<", "svg", " ", "viewBox", "=", QUOT, QUOT, "/>">>

(***************************************************************************)
(* C30.  Every node once, in document order, at the depth of the tree.     *)
(***************************************************************************)
\* the kinds the claim lists: Root, element, text, comment and directive
ListedKinds == TagTypes \cup {"root", "text", "comment", "directive", "doctype"}

RECURSIVE Preorder(_, _, _)
RECURSIVE PreorderAll(_, _, _, _)
\* the node id and the nodes below it, in document order; the descent stops
\* at the nodes of the kinds in leaves
Preorder(t, id, leaves) ==
  <<id>> \o (IF t[id].type \in leaves THEN <<>>
             ELSE PreorderAll(t, t[id].children, 1, leaves))

PreorderAll(t, nodes, index, leaves) ==
  IF index > Len(nodes) THEN <<>>
  ELSE Preorder(t, nodes[index], leaves)
         \o PreorderAll(t, nodes, index + 1, leaves)

\* the nodes of the listed kinds in a sequence of nodes
RECURSIVE Listed(_, _)
Listed(ids, index) ==
  IF index > Len(ids) THEN <<>>
  ELSE (IF tree[ids[index]].type \in ListedKinds THEN <<ids[index]>> ELSE <<>>)
         \o Listed(ids, index + 1)

\* the nodes whose text the call wrote, in the order it wrote them: the
\* nodes it visited, a CDATA node standing for the first child whose data it
\* writes
RECURSIVE Contributors(_)
Contributors(index) ==
  IF index > Len(log) THEN <<>>
  ELSE LET node == tree[log[index].node]
       IN  (IF node.type = "cdata"
            THEN IF Len(node.children) > 0 THEN <<node.children[1]>> ELSE <<>>
            ELSE <<log[index].node>>)
             \o Contributors(index + 1)

\* the depth of a node below the argument of the call: 1 for the argument's
\* own nodes
RECURSIVE DepthBelowTarget(_)
DepthBelowTarget(id) ==
  IF \E n \in DOMAIN ArgNodes(target) : ArgNodes(target)[n] = id THEN 1
  ELSE 1 + DepthBelowTarget(tree[id].parent)

\* C30: render terminates on every finite tree, and every Root, element,
\* text, comment and directive node reachable from the input through child
\* sequences contributes its text to the output exactly once, in document
\* order; the recursion depth equals the tree depth.
C30_EveryNodeOnceInDocumentOrder ==
  Called =>
    /\ Listed(Contributors(1), 1)
         = Listed(PreorderAll(tree, ArgNodes(target), 1, {}), 1)
    /\ \A i \in DOMAIN log : log[i].depth = DepthBelowTarget(log[i].node)

\* what holds: a call that returns has visited the nodes below its
\* argument, the children of CDATA nodes left out, once each, in document
\* order, each at its depth in the tree
C30_VisitedOnceInDocumentOrder ==
  Returned =>
    /\ [i \in DOMAIN log |-> log[i].node]
         = PreorderAll(tree, ArgNodes(target), 1, {"cdata"})
    /\ \A i \in DOMAIN log : log[i].depth = DepthBelowTarget(log[i].node)

\* the call on root > [p > [CDATA without children], br] throws in
\* renderCdata: no string is returned, and br is never reached
C30_Witness ==
  /\ status = "threw"
  /\ doc = EmptyCdataDocument
  /\ target = OneNode(1)
  /\ output = <<>>
  /\ [i \in DOMAIN log |-> log[i].node] = <<1, 2, 3>>
  /\ PreorderAll(tree, ArgNodes(target), 1, {}) = <<1, 2, 3, 4>>
  /\ tree[4].type = "tag"

==============================================================================
